---- MODULE Spec2Model ----
(***************************************************************************)
(* Model of src/data/processed/data_processing.py: main() reads the raw    *)
(* transactions, derives the payment features, scores and categorizes      *)
(* every record and writes cleaned_transactions.csv.                       *)
(*                                                                         *)
(* Numbers are the float64 values of the pandas columns, kept exact: a     *)
(* finite value is a reduced fraction n/d, and NaN, +inf and -inf are the  *)
(* special values pandas produces for a blank cell and a division by 0.    *)
(***************************************************************************)
EXTENDS Integers, Sequences, FiniteSets, TLC

VARIABLES pc, input_file, df, output_file

vars == <<pc, input_file, df, output_file>>

(***************************************************************************)
(* Bounds of the model.                                                    *)
(***************************************************************************)
MaxBatch == 2

(***************************************************************************)
(* float64 arithmetic as pandas / numpy apply it.                          *)
(***************************************************************************)
Abs(i) == IF i < 0 THEN -i ELSE i

RECURSIVE GCD(_, _)
GCD(a, b) == IF b = 0 THEN a ELSE GCD(b, a % b)

Rat(n, d) ==
    LET s == IF d < 0 THEN -1 ELSE 1
        g == GCD(Abs(n), Abs(d))
    IN  [k |-> "fin", n |-> (s * n) \div g, d |-> (s * d) \div g]

Fin(i) == [k |-> "fin", n |-> i, d |-> 1]
NaN == [k |-> "nan", n |-> 0, d |-> 1]
PosInf == [k |-> "inf", n |-> 1, d |-> 1]
NegInf == [k |-> "inf", n |-> -1, d |-> 1]

IsFin(x) == x.k = "fin"
IsNaN(x) == x.k = "nan"
Sign(x) == IF x.n > 0 THEN 1 ELSE IF x.n < 0 THEN -1 ELSE 0
Inf(s) == IF s > 0 THEN PosInf ELSE NegInf

Neg(x) == [x EXCEPT !.n = -x.n]

Add(x, y) ==
    IF IsNaN(x) \/ IsNaN(y) THEN NaN
    ELSE IF IsFin(x) /\ IsFin(y) THEN Rat(x.n * y.d + y.n * x.d, x.d * y.d)
    ELSE IF IsFin(x) THEN y
    ELSE IF IsFin(y) THEN x
    ELSE IF x.n = y.n THEN x ELSE NaN

Sub(x, y) == Add(x, Neg(y))

Mul(x, y) ==
    IF IsNaN(x) \/ IsNaN(y) THEN NaN
    ELSE IF IsFin(x) /\ IsFin(y) THEN Rat(x.n * y.n, x.d * y.d)
    ELSE IF Sign(x) * Sign(y) = 0 THEN NaN
    ELSE Inf(Sign(x) * Sign(y))

Div(x, y) ==
    IF IsNaN(x) \/ IsNaN(y) THEN NaN
    ELSE IF IsFin(x) /\ IsFin(y)
         THEN IF y.n # 0 THEN Rat(x.n * y.d, x.d * y.n)
              ELSE IF x.n = 0 THEN NaN ELSE Inf(Sign(x))
    ELSE IF IsFin(y) THEN Inf(Sign(x) * (IF y.n < 0 THEN -1 ELSE 1))
    ELSE IF IsFin(x) THEN Fin(0)
    ELSE NaN

\* x < y and x <= y on float64: any comparison with NaN is False
Lt(x, y) ==
    /\ ~IsNaN(x)
    /\ ~IsNaN(y)
    /\ IF IsFin(x) /\ IsFin(y) THEN x.n * y.d < y.n * x.d
       ELSE IF IsFin(x) THEN y.n > 0
       ELSE IF IsFin(y) THEN x.n < 0
       ELSE x.n < y.n

Le(x, y) == ~IsNaN(x) /\ ~IsNaN(y) /\ ~Lt(y, x)

Gt(x, y) == Lt(y, x)

\* np.minimum: NaN propagates
Minimum(x, y) ==
    IF IsNaN(x) \/ IsNaN(y) THEN NaN
    ELSE IF Lt(y, x) THEN y ELSE x

\* Series.fillna(0)
FillNa0(x) == IF IsNaN(x) THEN Fin(0) ELSE x

\* Series.round(1): to the nearest tenth, ties to the even tenth
Round1(x) ==
    IF ~IsFin(x) THEN x
    ELSE LET t == x.n * 10
             q == t \div x.d
             r == t % x.d
             up == \/ 2 * r > x.d
                   \/ (2 * r = x.d /\ q % 2 = 1)
         IN  Rat(IF up THEN q + 1 ELSE q, 10)

(***************************************************************************)
(* The cells of ../raw/transactions.csv and their parsed values.           *)
(***************************************************************************)
NumCell(v) == [text |-> "num", val |-> v]
DateCell(day) == [text |-> "date", val |-> day]
BlankCell == [text |-> "blank", val |-> 0]
BadCell == [text |-> "bad", val |-> 0]

\* pd.read_csv on a numeric column: a blank cell is NaN
ParseNumber(c) == IF c.text = "num" THEN Fin(c.val) ELSE NaN

NaT == [nat |-> TRUE, day |-> 0]
Timestamp(day) == [nat |-> FALSE, day |-> day]

\* pd.to_datetime(errors='coerce'): blank and unparsable text become NaT
ToDatetime(c) == IF c.text = "date" THEN Timestamp(c.val) ELSE NaT

\* (a - b).dt.days: NaN when either side is NaT
DaysUnpaidAsOfToday(a, b) ==
    IF b.nat THEN NaN ELSE Fin((IF a.nat THEN 200 ELSE a.day) - b.day)

Days(a, b) == IF a.nat \/ b.nat THEN NaN ELSE Fin(a.day - b.day)

(***************************************************************************)
(* Inputs: a batch is a first row drawn from Rows followed by up to        *)
(* MaxBatch - 1 rows drawn from PeerRows.                                  *)
(***************************************************************************)
Row(billed, discount, received, due, pay, dup) ==
    [Amount_Billed |-> NumCell(billed), Discount |-> NumCell(discount),
     Amount_Received |-> received, Due_Date |-> due, Payment_Date |-> pay,
     Is_Duplicate |-> dup]

BilledDiscount == {<<100, 0>>, <<100, 20>>, <<100, 100>>, <<100, 150>>, <<0, 0>>, <<0, 20>>}
ReceivedCells == {BlankCell, NumCell(-60), NumCell(0), NumCell(50), NumCell(100)}
DueCells == {DateCell(10), BadCell}
PaymentCells == {BlankCell, BadCell, DateCell(10), DateCell(20), DateCell(130)}

Rows ==
    {Row(bd[1], bd[2], rc, du, pd, dup) :
        bd \in BilledDiscount, rc \in ReceivedCells, du \in DueCells,
        pd \in PaymentCells, dup \in {0, 1}}

PeerRows ==
    {Row(100, 0, NumCell(100), DateCell(10), DateCell(10), 0),
     Row(100, 0, NumCell(50), DateCell(10), DateCell(20), 0),
     Row(100, 20, NumCell(50), DateCell(10), DateCell(130), 1),
     Row(100, 20, BlankCell, DateCell(10), BlankCell, 1),
     Row(100, 0, NumCell(100), DateCell(10), BlankCell, 0),
     Row(0, 20, NumCell(-60), DateCell(10), DateCell(10), 0)}

Batches ==
    UNION {{<<r>> \o p : r \in Rows, p \in [1..n -> PeerRows]} : n \in 0..(MaxBatch - 1)}

(***************************************************************************)
(* main(), one operator per block of column assignments.                   *)
(***************************************************************************)
\* line 22
ReadCsv(file) ==
    [i \in DOMAIN file |->
        [Amount_Billed |-> ParseNumber(file[i].Amount_Billed),
         Discount |-> ParseNumber(file[i].Discount),
         Amount_Received |-> ParseNumber(file[i].Amount_Received),
         Due_Date |-> file[i].Due_Date,
         Payment_Date |-> file[i].Payment_Date,
         Is_Duplicate |-> file[i].Is_Duplicate]]

\* lines 27-29
ParseDates(d) ==
    [i \in DOMAIN d |->
        [Amount_Billed |-> d[i].Amount_Billed,
         Discount |-> d[i].Discount,
         Amount_Received |-> d[i].Amount_Received,
         Due_Date |-> ToDatetime(d[i].Due_Date),
         Payment_Date |-> ToDatetime(d[i].Payment_Date),
         Is_Duplicate |-> d[i].Is_Duplicate]]

\* lines 32-34
Derive(d) ==
    [i \in DOMAIN d |->
        LET expected == Sub(d[i].Amount_Billed, d[i].Discount)
        IN  d[i] @@
            [Payment_Delay_Days |-> Days(d[i].Payment_Date, d[i].Due_Date),
             Expected_Payment |-> expected,
             Payment_Gap |-> Sub(expected, d[i].Amount_Received)]]

\* line 37
FillReceivedNever(d) == d

FillReceived(d) ==
    [i \in DOMAIN d |->
        IF d[i].Payment_Date.nat
        THEN [d[i] EXCEPT !.Amount_Received = Fin(0)]
        ELSE d[i]]

\* lines 40-43, the later assignment wins
PaymentStatusUnderpaidLast(d) ==
    [i \in DOMAIN d |->
        LET s1 == "Paid in Full"
            s2 == IF d[i].Payment_Date.nat THEN "Missing" ELSE s1
            s3 == IF Gt(d[i].Payment_Delay_Days, Fin(0)) THEN "Late" ELSE s2
            s4 == IF Gt(d[i].Payment_Gap, Fin(0)) THEN "Underpaid" ELSE s3
        IN  d[i] @@ [Payment_Status |-> s4]]

PaymentStatus(d) ==
    [i \in DOMAIN d |->
        LET s1 == "Paid in Full"
            s2 == IF Gt(d[i].Payment_Gap, Fin(0)) THEN "Underpaid" ELSE s1
            s3 == IF d[i].Payment_Date.nat THEN "Missing" ELSE s2
            s4 == IF Gt(d[i].Payment_Delay_Days, Fin(0)) THEN "Late" ELSE s3
        IN  d[i] @@ [Payment_Status |-> s4]]

\* line 46
DiscountPercentage(d) ==
    [i \in DOMAIN d |->
        d[i] @@
        [Discount_Percentage |->
            FillNa0(Mul(Div(d[i].Discount, d[i].Amount_Billed), Fin(100)))]]

\* line 51
DelayRisk(r) ==
    IF Gt(r.Payment_Delay_Days, Fin(0))
    THEN Minimum(Div(r.Payment_Delay_Days, Fin(3)), Fin(30))
    ELSE Fin(0)

\* line 53
MissingRisk(r) == IF r.Payment_Date.nat THEN Fin(50) ELSE Fin(0)

\* lines 55-56
UnderpaymentRisk(r) ==
    IF Gt(r.Payment_Gap, Fin(0))
    THEN Minimum(Mul(Div(r.Payment_Gap, r.Expected_Payment), Fin(100)), Fin(40))
    ELSE Fin(0)

\* line 58
DiscountRisk(r) ==
    IF Gt(r.Discount_Percentage, Fin(15))
    THEN Minimum(Sub(r.Discount_Percentage, Fin(15)), Fin(20))
    ELSE Fin(0)

\* line 60
DuplicateRisk(r) == IF r.Is_Duplicate = 1 THEN Fin(25) ELSE Fin(0)

\* lines 49-60: Risk_Score starts at 0 and every masked += adds to it
RawScore(r) ==
    Add(Add(Add(Add(Add(Fin(0), DelayRisk(r)), MissingRisk(r)),
        UnderpaymentRisk(r)), DiscountRisk(r)), DuplicateRisk(r))

RiskScore(d) == [i \in DOMAIN d |-> d[i] @@ [Risk_Score |-> RawScore(d[i])]]

\* Series.max(): NaN values are skipped, NaN when nothing is left
RECURSIVE MaxFrom(_, _, _)
MaxFrom(d, i, best) ==
    IF i > Len(d) THEN best
    ELSE LET x == d[i].Risk_Score
         IN  MaxFrom(d, i + 1,
                     IF IsNaN(x) THEN best
                     ELSE IF IsNaN(best) \/ Lt(best, x) THEN x ELSE best)

MaxRisk(d) == MaxFrom(d, 1, NaN)

\* lines 63-65
NormalizeNever(d) == d

Normalize(d) ==
    LET max_risk == MaxRisk(d)
    IN  IF Gt(max_risk, Fin(0))
        THEN [i \in DOMAIN d |->
                [d[i] EXCEPT !.Risk_Score =
                    Round1(Mul(Div(@, max_risk), Fin(100)))]]
        ELSE d

\* pd.cut(bins=[0, 25, 50, 75, 100]): right-closed bins, the lowest edge
\* excluded; a value in no bin is NaN
Cut(x) ==
    IF Gt(x, Fin(0)) /\ Le(x, Fin(25)) THEN "Low"
    ELSE IF Gt(x, Fin(25)) /\ Le(x, Fin(50)) THEN "Medium"
    ELSE IF Gt(x, Fin(50)) /\ Le(x, Fin(75)) THEN "High"
    ELSE IF Gt(x, Fin(75)) /\ Le(x, Fin(100)) THEN "Critical"
    ELSE "NaN"

\* lines 68-70
RiskCategory(d) ==
    [i \in DOMAIN d |-> d[i] @@ [Risk_Category |-> Cut(d[i].Risk_Score)]]

(***************************************************************************)
(* The run of main() as a state machine.                                   *)
(***************************************************************************)
NoFile == [exists |-> FALSE, rows |-> <<>>]

Init ==
    /\ pc = "start"
    /\ input_file \in Batches
    /\ df = <<>>
    /\ output_file = NoFile

Step(from, to, newdf) ==
    /\ pc = from
    /\ pc' = to
    /\ df' = newdf
    /\ UNCHANGED <<input_file, output_file>>

DoReadCsv == Step("start", "read", ReadCsv(input_file))
DoParseDates == Step("read", "parsed", ParseDates(df))
DoDerive == Step("parsed", "derived", Derive(df))
DoFillReceived == Step("derived", "filled", FillReceived(df))
DoPaymentStatus == Step("filled", "status", PaymentStatus(df))
DoDiscountPercentage == Step("status", "discount", DiscountPercentage(df))
DoRiskScore == Step("discount", "scored", RiskScore(df))
DoNormalize == Step("scored", "normalized", Normalize(df))
DoRiskCategory == Step("normalized", "categorized", RiskCategory(df))

\* line 22: the input file is missing or unreadable
ReadFails ==
    /\ pc = "start"
    /\ pc' = "aborted"
    /\ UNCHANGED <<input_file, df, output_file>>

\* lines 29, 32-34, 60, 79: a required column is absent, the first access
\* raises KeyError
ColumnMissing ==
    /\ pc \in {"read", "parsed", "discount", "saved"}
    /\ pc' = "aborted"
    /\ UNCHANGED <<input_file, df, output_file>>

\* line 76: df.to_csv opens output_file for writing, which creates or truncates it
WriteOpen ==
    /\ pc = "categorized"
    /\ pc' = "writing"
    /\ output_file' = [exists |-> TRUE, rows |-> <<>>]
    /\ UNCHANGED <<input_file, df>>

\* line 76: the rows are written one after the other
WriteRow ==
    /\ pc = "writing"
    /\ Len(output_file.rows) < Len(df)
    /\ output_file' = [output_file EXCEPT !.rows = Append(@, df[Len(@) + 1])]
    /\ UNCHANGED <<pc, input_file, df>>

\* line 76: all rows written, the file is closed
WriteClose ==
    /\ pc = "writing"
    /\ Len(output_file.rows) = Len(df)
    /\ pc' = "saved"
    /\ UNCHANGED <<input_file, df, output_file>>

\* line 76: the open or a write raises OSError (disk full, no permission)
OpenFails ==
    /\ pc = "categorized"
    /\ pc' = "aborted"
    /\ UNCHANGED <<input_file, df, output_file>>

WriteFails ==
    /\ pc = "writing"
    /\ pc' = "aborted"
    /\ UNCHANGED <<input_file, df, output_file>>

\* lines 78-86: the summary is printed
Finish ==
    /\ pc = "saved"
    /\ pc' = "done"
    /\ UNCHANGED <<input_file, df, output_file>>

Next ==
    \/ DoReadCsv
    \/ DoParseDates
    \/ DoDerive
    \/ DoFillReceived
    \/ DoPaymentStatus
    \/ DoDiscountPercentage
    \/ DoRiskScore
    \/ DoNormalize
    \/ DoRiskCategory
    \/ ReadFails
    \/ ColumnMissing
    \/ WriteOpen
    \/ WriteRow
    \/ WriteClose
    \/ OpenFails
    \/ WriteFails
    \/ Finish

Spec == Init /\ [][Next]_vars

(***************************************************************************)
(* Vocabulary of the properties.                                           *)
(***************************************************************************)
AfterDerive == {"derived", "filled", "status", "discount", "scored", "normalized",
                "categorized", "writing", "saved", "done"}
AfterFill == AfterDerive \ {"derived"}
AfterStatus == AfterFill \ {"filled"}
AfterDiscount == AfterStatus \ {"status"}
AfterScore == AfterDiscount \ {"discount"}
AfterNormalize == AfterScore \ {"scored"}
AfterCategory == AfterNormalize \ {"normalized"}

Labels == {"Low", "Medium", "High", "Critical"}

\* the data model's record: amount_billed > 0, discount >= 0 (not necessarily
\* <= amount_billed), amount_received >= 0 or still blank
AdmittedRow(r) ==
    /\ r.Amount_Billed.val > 0
    /\ r.Discount.val >= 0
    /\ r.Amount_Received.text = "num" => r.Amount_Received.val >= 0

Admitted == \A i \in DOMAIN input_file : AdmittedRow(input_file[i])

InRange(x, lo, hi) == Le(Fin(lo), x) /\ Le(x, Fin(hi))

\* C1: once main() has categorized an admitted batch, every record's
\* Risk_Category is one of Low, Medium, High, Critical, picked from its
\* Risk_Score s by 0 <= s <= 25 Low, 25 < s <= 50 Medium, 50 < s <= 75 High,
\* 75 < s <= 100 Critical.
C1_CategoryFromFixedBins ==
    (pc \in AfterCategory /\ Admitted) =>
        \A i \in DOMAIN df :
            LET s == df[i].Risk_Score
                c == df[i].Risk_Category
            IN  /\ c \in Labels
                /\ c = "Low" <=> InRange(s, 0, 25)
                /\ c = "Medium" <=> (Gt(s, Fin(25)) /\ Le(s, Fin(50)))
                /\ c = "High" <=> (Gt(s, Fin(50)) /\ Le(s, Fin(75)))
                /\ c = "Critical" <=> (Gt(s, Fin(75)) /\ Le(s, Fin(100)))

\* C2: for every batch the data model admits, every record's Risk_Score
\* after the normalization step lies in [0, 100].
C2_ScoreInRange ==
    (pc \in AfterNormalize /\ Admitted) =>
        \A i \in DOMAIN df : InRange(df[i].Risk_Score, 0, 100)

\* an admitted batch whose discount exceeds the amount billed, normalized to
\* one score strictly inside the range and one at 100
C2_Witness ==
    /\ pc = "normalized"
    /\ Admitted
    /\ \E i \in DOMAIN df : Lt(df[i].Expected_Payment, Fin(0))
    /\ \E i, j \in DOMAIN df :
        /\ df[i].Risk_Score = Fin(100)
        /\ Gt(df[j].Risk_Score, Fin(0))
        /\ Lt(df[j].Risk_Score, Fin(100))

\* C3: a record with a null Payment_Date has Payment_Gap equal to its full
\* Expected_Payment, and every record has
\* Payment_Gap = Expected_Payment - Amount_Received (stated for the batches
\* the data model admits).
C3_GapFromForcedReceived ==
    (pc \in AfterFill /\ Admitted) =>
        \A i \in DOMAIN df :
            /\ df[i].Payment_Date.nat => df[i].Payment_Gap = df[i].Expected_Payment
            /\ df[i].Payment_Gap = Sub(df[i].Expected_Payment, df[i].Amount_Received)

\* C4: in the DataFrame from line 37 on and in every row written to the
\* output, a record whose Payment_Date is null has Amount_Received = 0.
C4_UnpaidReceivedZero ==
    /\ pc \in AfterFill =>
        \A i \in DOMAIN df :
            df[i].Payment_Date.nat => df[i].Amount_Received = Fin(0)
    /\ \A i \in DOMAIN output_file.rows :
            output_file.rows[i].Payment_Date.nat =>
                output_file.rows[i].Amount_Received = Fin(0)

\* the output holds a record whose date was unparsable and whose input
\* carried a non-zero amount, and one whose date was blank
C4_Witness ==
    /\ pc = "done"
    /\ \E i \in DOMAIN output_file.rows :
        /\ input_file[i].Payment_Date = BadCell
        /\ input_file[i].Amount_Received = NumCell(50)
        /\ output_file.rows[i].Amount_Received = Fin(0)
    /\ \E i \in DOMAIN output_file.rows :
        /\ input_file[i].Payment_Date = BlankCell
        /\ output_file.rows[i].Amount_Received = Fin(0)

\* the raw penalty of a row of df, whatever Risk_Score holds by now
Raw(i) == RawScore(df[i])

\* the largest raw penalty of the batch
MaxRaw == CHOOSE x \in {Raw(i) : i \in DOMAIN df} : \A j \in DOMAIN df : Le(Raw(j), x)

\* C5: if the largest raw penalty of the batch is above 0, every record
\* holding it gets Risk_Score 100 and every other record its raw penalty
\* times 100 / max rounded to one decimal; if it is 0, every record's
\* Risk_Score is 0.
C5_BatchRelativeNormalization ==
    pc \in AfterNormalize =>
        /\ Gt(MaxRaw, Fin(0)) =>
            \A i \in DOMAIN df :
                df[i].Risk_Score =
                    IF Raw(i) = MaxRaw THEN Fin(100)
                    ELSE Round1(Div(Mul(Raw(i), Fin(100)), MaxRaw))
        /\ MaxRaw = Fin(0) =>
            \A i \in DOMAIN df : df[i].Risk_Score = Fin(0)

\* the five penalty components as the scoring table states them
TableDelay(r) ==
    IF Gt(r.Payment_Delay_Days, Fin(0))
    THEN Minimum(Div(r.Payment_Delay_Days, Fin(3)), Fin(30)) ELSE Fin(0)
TableMissing(r) == IF r.Payment_Date.nat THEN Fin(50) ELSE Fin(0)
TableUnderpayment(r) ==
    IF Gt(r.Payment_Gap, Fin(0))
    THEN Minimum(Mul(Div(r.Payment_Gap, r.Expected_Payment), Fin(100)), Fin(40))
    ELSE Fin(0)
TableDiscount(r) ==
    IF Gt(r.Discount_Percentage, Fin(15))
    THEN Minimum(Sub(r.Discount_Percentage, Fin(15)), Fin(20)) ELSE Fin(0)
TableDuplicate(r) == IF r.Is_Duplicate = 1 THEN Fin(25) ELSE Fin(0)

\* C6: before normalization every record's score is the sum of its
\* applicable clamped components and lies in 0..165.
C6_RawIsClampedSum ==
    pc = "scored" =>
        \A i \in DOMAIN df :
            /\ df[i].Risk_Score =
                Add(Add(Add(Add(TableDelay(df[i]), TableMissing(df[i])),
                    TableUnderpayment(df[i])), TableDiscount(df[i])),
                    TableDuplicate(df[i]))
            /\ InRange(df[i].Risk_Score, 0, 165)

\* C7: every record's Payment_Status is Late if Payment_Delay_Days > 0,
\* otherwise Missing if Payment_Date is null, otherwise Underpaid if
\* Payment_Gap > 0, otherwise Paid in Full.
C7_StatusPrecedence ==
    pc \in AfterStatus =>
        \A i \in DOMAIN df :
            df[i].Payment_Status =
                IF Gt(df[i].Payment_Delay_Days, Fin(0)) THEN "Late"
                ELSE IF df[i].Payment_Date.nat THEN "Missing"
                ELSE IF Gt(df[i].Payment_Gap, Fin(0)) THEN "Underpaid"
                ELSE "Paid in Full"

\* a late record with a shortfall ended Late, an unpaid record with a
\* shortfall ended Missing
C7_Witness ==
    /\ pc = "status"
    /\ \E i \in DOMAIN df :
        /\ Gt(df[i].Payment_Gap, Fin(0))
        /\ Gt(df[i].Payment_Delay_Days, Fin(0))
        /\ df[i].Payment_Status = "Late"
    /\ \E i \in DOMAIN df :
        /\ Gt(df[i].Payment_Gap, Fin(0))
        /\ df[i].Payment_Date.nat
        /\ df[i].Payment_Status = "Missing"

\* C8: a record with Expected_Payment = 0 and Payment_Gap > 0 gets no
\* underpayment penalty: its raw score is the sum of its other components.
C8_ZeroExpectedNoUnderpayment ==
    pc = "scored" =>
        \A i \in DOMAIN df :
            (df[i].Expected_Payment = Fin(0) /\ Gt(df[i].Payment_Gap, Fin(0))) =>
                df[i].Risk_Score =
                    Add(Add(Add(DelayRisk(df[i]), MissingRisk(df[i])),
                        DiscountRisk(df[i])), DuplicateRisk(df[i]))

\* C9: a record with Amount_Billed = 0 has Discount_Percentage = 0 and no
\* excess-discount penalty, for any Discount >= 0.
C9_ZeroBilledZeroPercentage ==
    pc \in AfterDiscount =>
        \A i \in DOMAIN df :
            df[i].Amount_Billed = Fin(0) =>
                /\ df[i].Discount_Percentage = Fin(0)
                /\ DiscountRisk(df[i]) = Fin(0)

\* C10: a run that aborts leaves the output with no record of this run or
\* with the complete enriched record set, never with a part of it.
C10_NoPartialOutput ==
    pc = "aborted" =>
        \/ output_file.rows = <<>>
        \/ output_file.rows = df

\* C12: a record's Payment_Status is Missing exactly when its Payment_Date
\* is null, no record with a null Payment_Date is Late, and no record gets
\* both the delay penalty and the missing-payment penalty.
C12_MissingIffUnpaid ==
    /\ pc \in AfterStatus =>
        \A i \in DOMAIN df :
            /\ df[i].Payment_Status = "Missing" <=> df[i].Payment_Date.nat
            /\ ~(df[i].Payment_Date.nat /\ df[i].Payment_Status = "Late")
    /\ pc \in AfterDiscount =>
        \A i \in DOMAIN df :
            ~(DelayRisk(df[i]) # Fin(0) /\ MissingRisk(df[i]) # Fin(0))

\* the output holds an unpaid record with a shortfall that ended Missing
\* with the flat penalty and no delay penalty, next to a late record that
\* ended Late with the delay penalty only
C12_Witness ==
    /\ pc = "done"
    /\ \E i \in DOMAIN output_file.rows :
        LET r == output_file.rows[i]
        IN  /\ r.Payment_Date.nat
            /\ Gt(r.Payment_Gap, Fin(0))
            /\ r.Payment_Status = "Missing"
            /\ MissingRisk(r) = Fin(50)
            /\ DelayRisk(r) = Fin(0)
    /\ \E i \in DOMAIN output_file.rows :
        LET r == output_file.rows[i]
        IN  /\ r.Payment_Status = "Late"
            /\ Gt(DelayRisk(r), Fin(0))
            /\ MissingRisk(r) = Fin(0)

\* lines 22-65 on another input file: every block is applied to the value
\* the block before it produced
Pipeline(file) ==
    CHOOSE scored \in
        {Normalize(d7) : d7 \in {RiskScore(d6) : d6 \in
        {DiscountPercentage(d5) : d5 \in {PaymentStatus(d4) : d4 \in
        {FillReceived(d3) : d3 \in {Derive(d2) : d2 \in
        {ParseDates(d1) : d1 \in {ReadCsv(file)}}}}}}}} : TRUE

\* the shortfall ratio Payment_Gap / Expected_Payment of a record
Ratio(r) == Div(r.Payment_Gap, r.Expected_Payment)

\* the signals of two records agree, except the named one
SameBut(a, b, what) ==
    /\ what = "delay" \/ a.Payment_Delay_Days = b.Payment_Delay_Days
    /\ what = "ratio" \/ Ratio(a) = Ratio(b)
    /\ what = "discount" \/ a.Discount_Percentage = b.Discount_Percentage
    /\ what \in {"missing", "delay"} \/ a.Payment_Date.nat = b.Payment_Date.nat
    /\ what = "duplicate" \/ a.Is_Duplicate = b.Is_Duplicate

\* the admitted rows that differ from the first row of the input only in the
\* cells behind the named signal
Variants(what) ==
    {x \in Rows :
        /\ AdmittedRow(x)
        /\ what \in {"delay", "missing"} \/
            (x.Payment_Date = input_file[1].Payment_Date
                /\ x.Due_Date = input_file[1].Due_Date)
        /\ what = "discount" \/
            (x.Amount_Billed = input_file[1].Amount_Billed
                /\ x.Discount = input_file[1].Discount)
        /\ what \in {"ratio", "discount"} \/
            x.Amount_Received = input_file[1].Amount_Received
        /\ what = "duplicate" \/ x.Is_Duplicate = input_file[1].Is_Duplicate}

\* the first record of the batch that holds x in place of the first row,
\* after normalization
Rescored(x) == Pipeline([input_file EXCEPT ![1] = x])[1]

MonotoneIn(what) ==
    \A x \in Variants(what) : \A b \in {Rescored(x)} :
        LET a == df[1]
            larger ==
                CASE what = "delay" ->
                        /\ ~b.Payment_Date.nat
                        /\ Lt(a.Payment_Delay_Days, b.Payment_Delay_Days)
                  [] what = "ratio" -> Lt(Ratio(a), Ratio(b))
                  [] what = "discount" ->
                        Lt(a.Discount_Percentage, b.Discount_Percentage)
        IN  (larger /\ SameBut(a, b, what)) => Le(a.Risk_Score, b.Risk_Score)

FixedPenalty(what) ==
    \A x \in Variants(what) : \A b \in {Rescored(x)} :
        LET a == df[1]
            set == IF what = "duplicate"
                   THEN a.Is_Duplicate = 0 /\ b.Is_Duplicate = 1
                   ELSE /\ ~a.Payment_Date.nat
                        /\ b.Payment_Date.nat
                        /\ DelayRisk(a) = Fin(0)
        IN  (set /\ SameBut(a, b, what)) =>
                RawScore(b) =
                    Add(RawScore(a), IF what = "duplicate" THEN Fin(25) ELSE Fin(50))

\* C11: between two admitted batches that differ only in one record, the
\* record with the larger Payment_Delay_Days, or the larger shortfall ratio,
\* or the larger Discount_Percentage, all other signals equal, has the
\* greater or equal Risk_Score; setting its missing-payment or duplicate
\* condition adds 50 or 25 to its raw score.
C11_ScoreMonotone ==
    (pc = "normalized" /\ Admitted) =>
        /\ MonotoneIn("discount")
        /\ MonotoneIn("ratio")
        /\ MonotoneIn("delay")
        /\ FixedPenalty("missing")
        /\ FixedPenalty("duplicate")

====
